---- MODULE Spec2Model ----
\* Model of the submit-and-poll workflow of the ImageProcessor component
\* (src/src/components/ImageProcessor.tsx): the Process button, the async
\* function handleProcess with its await points, the catch block and the
\* "processComplete" event.
EXTENDS Naturals, Sequences, FiniteSets, TLC

\* ------------------------------------------------------------------ bounds
\* Number of times the Process button is clicked in one behaviour.
MaxInvocations == 2
\* Number of status fetches one invocation of handleProcess may issue.
MaxPolls == 2

\* ------------------------------------------------------- program constants
\* sleep(1000), the fixed delay before each status fetch.
PollDelay == 1000

Invocations == 1..MaxInvocations

\* ------------------------------------------------------------ value domains
\* JavaScript's undefined (an absent field, an out-of-range array element).
Undefined == "<undefined>"

Urls == {"https://x/a.png", "https://x/b.png"}

\* output?: string | string[]
Absent == [kind |-> "absent", url |-> Undefined, seq |-> <<>>]
SingleUrl(u) == [kind |-> "url", url |-> u, seq |-> <<>>]
UrlSeq(s) == [kind |-> "seq", url |-> Undefined, seq |-> s]
UrlSeqs ==
    {<<>>} \cup {<<u>> : u \in Urls} \cup {p \in Urls \X Urls : p[1] /= p[2]}
Outputs == {Absent} \cup {SingleUrl(u) : u \in Urls} \cup {UrlSeq(s) : s \in UrlSeqs}

\* error?: string
ErrorFields == {Undefined, "", "oom"}

NonTerminal == {"starting", "processing"}
RemoteStatus == NonTerminal \cup {"succeeded", "failed"}

\* JSON bodies the status endpoint answers with.
StatusBodies ==
    [status : NonTerminal, output : {Absent}, error : {Undefined}]
    \cup [status : {"succeeded"}, output : Outputs, error : {Undefined}]
    \cup [status : {"failed"}, output : {Absent}, error : ErrorFields]

\* JSON bodies the creation endpoint answers with on success (a job).
CreateBodies == [status : RemoteStatus]

\* JSON bodies the creation endpoint answers with on a non-success status.
CreateErrorBodies == [error : ErrorFields]

NoErrorBody == "<none>"
Unparseable == "<unparseable>"
NoBody == [status |-> "none", output |-> Absent, error |-> Undefined]

\* Messages of the exceptions the runtime raises (not set by the component).
FetchRejectMessage == "Failed to fetch"
JsonParseMessage == "Unexpected token < in JSON at position 0"

\* A thrown value: every value thrown inside the try block is an Error.
Err(m) == [isError |-> TRUE, message |-> m]

\* ------------------------------------------------------------ pure helpers
\* JavaScript truthiness of an optional string.
Truthy(x) == x /= Undefined /\ x /= ""

\* a || b on an optional string.
OrElse(a, b) == IF Truthy(a) THEN a ELSE b

CreateErrorMessage_generic(body) == "Failed to process image"

\* line 70: error.error || 'Failed to process image'
CreateErrorMessage(body) == OrElse(body.error, "Failed to process image")

FailedMessage_generic(body) == "Processing failed"

\* line 90: updatedPrediction.error || 'Processing failed'
FailedMessage(body) == OrElse(body.error, "Processing failed")

CatchMessage_generic(e) == "Failed to process image"

\* line 107: error instanceof Error ? error.message : 'Failed to process image'
CatchMessage(e) == IF e.isError THEN e.message ELSE "Failed to process image"

LoopCondition_inverted(predictionStatus) ==
    predictionStatus = "succeeded" \/ predictionStatus = "failed"

\* lines 78-79: the loop condition, on the status of the creation response.
LoopCondition(predictionStatus) ==
    predictionStatus /= "succeeded" /\ predictionStatus /= "failed"

OutputUrl_last(output) ==
    IF output.kind = "seq"
    THEN (IF Len(output.seq) >= 1 THEN output.seq[Len(output.seq)] ELSE Undefined)
    ELSE output.url

\* lines 94-96: Array.isArray(output) ? output[0] : output
OutputUrl(output) ==
    IF output.kind = "seq"
    THEN (IF Len(output.seq) >= 1 THEN output.seq[1] ELSE Undefined)
    ELSE output.url

sleep_immediate(ms) == 0

\* line 38: the promise of sleep(ms) resolves once ms milliseconds have passed.
sleep(ms) == ms

\* line 41: if (!user)
MissingUser_ignored(user) == FALSE

MissingUser(user) == ~user

\* line 46: if (!selectedFile || !previewUrl)
MissingInput_fileOnly(selectedFile, previewUrl) == ~selectedFile

MissingInput(selectedFile, previewUrl) == ~selectedFile \/ ~previewUrl

ButtonDisabled_fileOnly(selectedFile, st) == ~selectedFile

ButtonDisabled_processingOnly(selectedFile, st) == ~selectedFile \/ st = "processing"

\* line 160: disabled={!selectedFile || status === 'processing' || status === 'uploading'}
ButtonDisabled(selectedFile, st) ==
    ~selectedFile \/ st = "processing" \/ st = "uploading"

\* ------------------------------------------------------------------- state
VARIABLES
    status,         \* useState 'idle' | 'uploading' | 'processing' | 'complete' | 'error'
    statusMessage,  \* useState ''
    inv,            \* the invocations of handleProcess: position and locals
    requests,       \* requests sent, in order
    events,         \* "processComplete" events dispatched on window, in order
    toasts          \* toast.error notifications, in order

vars == <<status, statusMessage, inv, requests, events, toasts>>

Fresh ==
    [pc |-> "unused", user |-> FALSE, selectedFile |-> FALSE, previewUrl |-> FALSE,
     prediction |-> "none", errorBody |-> NoErrorBody, updated |-> NoBody,
     polls |-> 0, trace |-> <<>>, cause |-> "none"]

Init ==
    /\ status = "idle"
    /\ statusMessage = ""
    /\ inv = [i \in Invocations |-> Fresh]
    /\ requests = <<>>
    /\ events = <<>>
    /\ toasts = <<>>

Catch_silent(i, e, cause, base) ==
    /\ status' = "error"
    /\ statusMessage' = CatchMessage(e)
    /\ toasts' = toasts
    /\ inv' = [base EXCEPT ![i].pc = "done", ![i].trace = Append(@, "error"),
                          ![i].cause = cause]

Catch_retry(i, e, cause, base) ==
    /\ status' = "error"
    /\ statusMessage' = CatchMessage(e)
    /\ toasts' = Append(toasts, [inv |-> i, msg |-> "Processing failed. Please try again."])
    /\ inv' = [base EXCEPT ![i].pc = "sleeping", ![i].trace = Append(@, "error"),
                          ![i].cause = cause]

\* lines 104-109: the catch block, entered by invocation i with thrown value e;
\* base is inv with the locals of the step that threw, cause names the throw.
Catch(i, e, cause, base) ==
    /\ status' = "error"
    /\ statusMessage' = CatchMessage(e)
    /\ toasts' = Append(toasts, [inv |-> i, msg |-> "Processing failed. Please try again."])
    /\ inv' = [base EXCEPT ![i].pc = "done", ![i].trace = Append(@, "error"),
                          ![i].cause = cause]

\* lines 40-66: a click on the Process button runs handleProcess up to its
\* first await. user, selectedFile and previewUrl are what the render that
\* owns the handler saw (useAuth and the props).
HandleProcess(i, user, selectedFile, previewUrl) ==
    /\ inv[i].pc = "unused"
    /\ \A j \in Invocations : j < i => inv[j].pc /= "unused"
    /\ ~ButtonDisabled(selectedFile, status)
    /\ LET mine == [inv EXCEPT ![i].user = user, ![i].selectedFile = selectedFile,
                               ![i].previewUrl = previewUrl]
       IN  IF MissingUser(user)
           THEN /\ toasts' = Append(toasts, [inv |-> i, msg |-> "Please log in to continue"])
                /\ inv' = [mine EXCEPT ![i].pc = "returned"]
                /\ UNCHANGED <<status, statusMessage, requests, events>>
           ELSE IF MissingInput(selectedFile, previewUrl)
           THEN /\ inv' = [mine EXCEPT ![i].pc = "returned"]
                /\ UNCHANGED <<status, statusMessage, requests, events, toasts>>
           ELSE /\ status' = "uploading"
                /\ statusMessage' = "Starting image processing..."
                /\ requests' = Append(requests, [inv |-> i, kind |-> "create", waited |-> 0])
                /\ inv' = [mine EXCEPT ![i].pc = "awaitCreate",
                                       ![i].trace = Append(@, "uploading")]
                /\ UNCHANGED <<events, toasts>>

Click == \E i \in Invocations : \E user, selectedFile, previewUrl \in BOOLEAN :
    HandleProcess(i, user, selectedFile, previewUrl)

onProcessComplete_dropped(i, outputUrl) == events

onProcessComplete_twice(i, outputUrl) ==
    Append(Append(events, [inv |-> i, outputUrl |-> outputUrl]),
           [inv |-> i, outputUrl |-> outputUrl])

\* lines 112-116: dispatch the "processComplete" event on window.
onProcessComplete(i, outputUrl) ==
    Append(events, [inv |-> i, outputUrl |-> outputUrl])

\* lines 53-68: the creation fetch settles. A rejected fetch throws; a
\* response of either kind goes on to read its JSON body.
CreateSettles(i) ==
    /\ inv[i].pc = "awaitCreate"
    /\ \/ /\ Catch(i, Err(FetchRejectMessage), "createRejected", inv)
          /\ UNCHANGED <<requests, events>>
       \/ /\ \E ok \in BOOLEAN :
                inv' = [inv EXCEPT ![i].pc = IF ok THEN "awaitCreateJson" ELSE "awaitErrorJson"]
          /\ UNCHANGED <<status, statusMessage, requests, events, toasts>>

\* lines 69-70: the body of a non-success creation response has been read.
CreateErrorBody(i) ==
    /\ inv[i].pc = "awaitErrorJson"
    /\ \/ Catch(i, Err(JsonParseMessage), "createHttp",
                [inv EXCEPT ![i].errorBody = Unparseable])
       \/ \E body \in CreateErrorBodies :
             Catch(i, Err(CreateErrorMessage(body)), "createHttp",
                   [inv EXCEPT ![i].errorBody = body.error])
    /\ UNCHANGED <<requests, events>>

\* lines 73-81: the body of a successful creation response has been read;
\* the loop is entered, or skipped when the job is already terminal.
CreateBody(i) ==
    /\ inv[i].pc = "awaitCreateJson"
    /\ \/ /\ Catch(i, Err(JsonParseMessage), "createJson", inv)
          /\ UNCHANGED <<requests, events>>
       \/ /\ \E body \in CreateBodies :
                inv' = [inv EXCEPT ![i].prediction = body.status,
                                   ![i].trace = Append(@, "processing"),
                                   ![i].pc = IF LoopCondition(body.status)
                                             THEN "sleeping" ELSE "done"]
          /\ status' = "processing"
          /\ UNCHANGED <<statusMessage, requests, events, toasts>>

\* lines 81-82: the delay has passed and the status fetch is issued.
SleepElapses(i) ==
    /\ inv[i].pc = "sleeping"
    /\ inv[i].polls < MaxPolls
    /\ requests' = Append(requests, [inv |-> i, kind |-> "status", waited |-> sleep(PollDelay)])
    /\ inv' = [inv EXCEPT ![i].pc = "awaitStatus", ![i].polls = @ + 1]
    /\ UNCHANGED <<status, statusMessage, events, toasts>>

\* lines 82-86: the status fetch settles.
StatusSettles(i) ==
    /\ inv[i].pc = "awaitStatus"
    /\ \/ /\ Catch(i, Err(FetchRejectMessage), "pollRejected", inv)
          /\ UNCHANGED <<requests, events>>
       \/ /\ Catch(i, Err("Failed to check prediction status"), "pollHttp", inv)
          /\ UNCHANGED <<requests, events>>
       \/ /\ inv' = [inv EXCEPT ![i].pc = "awaitStatusJson"]
          /\ UNCHANGED <<status, statusMessage, requests, events, toasts>>

\* lines 86-103 and 77-81: the body of a successful status response has been
\* read; the rest of the loop body runs, then the loop condition.
StatusBody(i) ==
    /\ inv[i].pc = "awaitStatusJson"
    /\ \/ /\ Catch(i, Err(JsonParseMessage), "pollJson", inv)
          /\ UNCHANGED <<requests, events>>
       \/ \E body \in StatusBodies :
             LET mine == [inv EXCEPT ![i].updated = body]
             IN  IF body.status = "failed"
                 THEN /\ Catch(i, Err(FailedMessage(body)), "remoteFailed", mine)
                      /\ UNCHANGED <<requests, events>>
                 ELSE IF body.status = "succeeded"
                 THEN /\ status' = "complete"
                      /\ statusMessage' = "Processing complete!"
                      /\ events' = onProcessComplete(i, OutputUrl(body.output))
                      /\ inv' = [mine EXCEPT ![i].pc = "done",
                                             ![i].trace = Append(@, "complete")]
                      /\ UNCHANGED <<requests, toasts>>
                 ELSE /\ statusMessage' = "Processing: " \o body.status
                      /\ inv' = [mine EXCEPT ![i].pc = IF LoopCondition(inv[i].prediction)
                                                       THEN "sleeping" ELSE "done"]
                      /\ UNCHANGED <<status, requests, events, toasts>>

Step(i) ==
    \/ CreateSettles(i)
    \/ CreateErrorBody(i)
    \/ CreateBody(i)
    \/ SleepElapses(i)
    \/ StatusSettles(i)
    \/ StatusBody(i)

Next ==
    \/ Click
    \/ \E i \in Invocations : Step(i)

Spec == Init /\ [][Next]_vars

\* ------------------------------------------------------- claim vocabulary
Terminal == {"succeeded", "failed"}

Range(q) == {q[k] : k \in 1..Len(q)}

\* The invocation whose writes to status and statusMessage are the latest.
IsLatest(i) == \A j \in Invocations : j > i => inv[j].pc = "unused"

RequestsOf(i) == {r \in Range(requests) : r.inv = i}
EventsOf(i) == {e \in Range(events) : e.inv = i}
ToastsOf(i) == {t \in Range(toasts) : t.inv = i}

\* Invocation i starts in this step.
Invoked(i) == inv[i].pc = "unused" /\ inv'[i].pc /= "unused"

\* ------------------------------------------------------------------ claims
\* C1: a submission whose creation succeeded and whose status responses were
\* non-terminal ones ending in "succeeded" with a single URL U set the UI
\* status to uploading, processing, complete in that order, left it at
\* complete, and dispatched "processComplete" with outputUrl = U.
C1_SuccessFlow ==
    \A i \in Invocations :
        (inv[i].updated.status = "succeeded" /\ inv[i].updated.output.kind = "url")
        => /\ inv[i].trace = <<"uploading", "processing", "complete">>
           /\ IsLatest(i) => status = "complete"
           /\ [inv |-> i, outputUrl |-> inv[i].updated.output.url] \in Range(events)

C1_Witness ==
    \E i \in Invocations :
        /\ inv[i].polls = 2
        /\ inv[i].prediction = "starting"
        /\ inv[i].updated.status = "succeeded"
        /\ inv[i].updated.output = SingleUrl("https://x/a.png")
        /\ status = "complete"
        /\ [inv |-> i, outputUrl |-> "https://x/a.png"] \in Range(events)

\* C2: once a terminal remote status has been returned to a submission, in the
\* creation response or in a status response, the submission ends with
\* complete and an emitted output URL ("succeeded") or with error ("failed");
\* it does not stay in processing.
C2_TerminalEnds ==
    \A i \in Invocations :
        LET seen == IF inv[i].updated.status \in Terminal
                    THEN inv[i].updated.status ELSE inv[i].prediction
        IN  (inv[i].pc = "done" /\ seen \in Terminal)
            => /\ seen = "succeeded" =>
                    /\ inv[i].trace[Len(inv[i].trace)] = "complete"
                    /\ EventsOf(i) /= {}
                    /\ IsLatest(i) => status = "complete"
               /\ seen = "failed" =>
                    /\ inv[i].trace[Len(inv[i].trace)] = "error"
                    /\ IsLatest(i) => status = "error"

\* C3 (as stated): a "failed" status response ends the submission with status
\* error and the message equal to the error field when present, to
\* "Processing failed" when absent; no "processComplete" event.
C3_FailedMessageAsStated ==
    \A i \in Invocations :
        inv[i].updated.status = "failed"
        => /\ inv[i].pc = "done"
           /\ EventsOf(i) = {}
           /\ IsLatest(i) =>
                /\ status = "error"
                /\ statusMessage = IF inv[i].updated.error /= Undefined
                                   THEN inv[i].updated.error ELSE "Processing failed"

\* C3 (amended): a "failed" status response ends the submission with status
\* error and the message equal to the error field when it is present and not
\* empty, to "Processing failed" when it is absent or empty; no
\* "processComplete" event.
C3_FailedMessage ==
    \A i \in Invocations :
        inv[i].updated.status = "failed"
        => /\ inv[i].pc = "done"
           /\ EventsOf(i) = {}
           /\ inv[i].trace[Len(inv[i].trace)] = "error"
           /\ IsLatest(i) =>
                /\ status = "error"
                /\ statusMessage = IF inv[i].updated.error \notin {Undefined, ""}
                                   THEN inv[i].updated.error ELSE "Processing failed"

C3_Witness ==
    \E i \in Invocations :
        /\ inv[i].updated.status = "failed"
        /\ inv[i].updated.error = "oom"
        /\ status = "error"
        /\ statusMessage = "oom"

\* C4 (as stated): a non-success creation response takes the status through
\* uploading to error without processing, with the message equal to the
\* body's error field when present and to "Failed to process image" when the
\* field is absent or empty or the body cannot be parsed.
C4_CreateErrorAsStated ==
    \A i \in Invocations :
        inv[i].errorBody /= NoErrorBody
        => /\ inv[i].trace = <<"uploading", "error">>
           /\ IsLatest(i) =>
                /\ status = "error"
                /\ statusMessage = IF inv[i].errorBody \in {Undefined, "", Unparseable}
                                   THEN "Failed to process image" ELSE inv[i].errorBody

\* C4 (amended): as stated when the body parses; when it does not, the
\* message is the message of the exception raised by the parse.
C4_CreateError ==
    \A i \in Invocations :
        inv[i].errorBody /= NoErrorBody
        => /\ inv[i].trace = <<"uploading", "error">>
           /\ IsLatest(i) =>
                /\ status = "error"
                /\ statusMessage =
                     IF inv[i].errorBody = Unparseable THEN JsonParseMessage
                     ELSE IF inv[i].errorBody \in {Undefined, ""}
                     THEN "Failed to process image" ELSE inv[i].errorBody

C4_Witness ==
    /\ inv[1].errorBody = "oom"
    /\ inv[1].trace = <<"uploading", "error">>
    /\ status = "error"
    /\ statusMessage = "oom"
    /\ inv[2].pc = "unused"

\* C5: an invocation of handleProcess without an authenticated user sends no
\* request and leaves the UI status as it was (idle stays idle).
C5_NoUserNoRequest ==
    [][\A i \in Invocations :
          (Invoked(i) /\ ~inv'[i].user)
          => /\ requests' = requests
             /\ status' = status
             /\ inv'[i].pc = "returned"]_vars

C5_Witness ==
    /\ inv[1].pc = "returned"
    /\ ~inv[1].user
    /\ inv[1].selectedFile /\ inv[1].previewUrl
    /\ status = "idle"
    /\ requests = <<>>

\* Position of a UI status in the order idle, uploading, processing,
\* (complete | error).
Rank(st) ==
    CASE st = "idle" -> 0
      [] st = "uploading" -> 1
      [] st = "processing" -> 2
      [] OTHER -> 3

\* A submission passes its guards and starts its workflow in this step.
FreshSubmission == \E i \in Invocations : Invoked(i) /\ inv'[i].pc = "awaitCreate"

\* C6: every change of the UI status moves forward in the order idle,
\* uploading, processing, (complete | error), or is the reset to uploading
\* made by a fresh submission.
C6_StatusForward ==
    [][status' /= status
       => \/ Rank(status') > Rank(status)
          \/ status' = "uploading" /\ FreshSubmission]_vars

C6_Witness ==
    /\ inv[1].trace = <<"uploading", "processing", "complete">>
    /\ inv[2].trace = <<"uploading">>
    /\ status = "uploading"

\* C7: every status fetch of a submission is issued after a full wait of the
\* fixed delay since the submission's previous request, and a submission that
\* has observed a terminal status response issues no further status fetch.
C7_PollDiscipline ==
    [][requests' /= requests
       => LET r == requests'[Len(requests')]
          IN  /\ Len(requests') = Len(requests) + 1
              /\ r.kind = "status"
                  => /\ r.waited >= PollDelay
                     /\ inv[r.inv].updated.status \notin Terminal
                     /\ inv[r.inv].pc /= "done"]_vars

C7_Witness ==
    \E i \in Invocations :
        /\ inv[i].polls = 2
        /\ inv[i].updated.status \in Terminal
        /\ Cardinality({k \in 1..Len(requests) :
                          requests[k].inv = i /\ requests[k].kind = "status"
                          /\ requests[k].waited = PollDelay}) = 2

\* C8: the outputUrl of the event dispatched for a "succeeded" response is
\* the first element of output when output is a sequence of URLs, and output
\* itself when it is a single URL.
C8_FirstOutput ==
    \A i \in Invocations :
        LET out == inv[i].updated.output
        IN  inv[i].updated.status = "succeeded"
            => /\ (out.kind = "seq" /\ Len(out.seq) >= 1)
                  => EventsOf(i) = {[inv |-> i, outputUrl |-> out.seq[1]]}
               /\ out.kind = "url"
                  => EventsOf(i) = {[inv |-> i, outputUrl |-> out.url]}

C8_Witness ==
    \E i \in Invocations :
        /\ inv[i].updated.status = "succeeded"
        /\ inv[i].updated.output = UrlSeq(<<"https://x/a.png", "https://x/b.png">>)
        /\ [inv |-> i, outputUrl |-> "https://x/a.png"] \in Range(events)

\* Messages the catch block can show.
ErrorMessages ==
    {"Failed to process image", "Processing failed", "Failed to check prediction status",
     FetchRejectMessage, JsonParseMessage, "oom"}

\* The error kinds: (a) missing authentication, (b) HTTP failure on creation
\* or polling, (c) remote job failure, (d) any other thrown exception.
KindA(i) == inv[i].pc = "returned" /\ ~inv[i].user
KindB(i) == inv[i].cause \in {"createHttp", "pollHttp"}
KindC(i) == inv[i].cause = "remoteFailed"
KindD(i) == inv[i].cause \in {"createRejected", "createJson", "pollRejected", "pollJson"}

ErrorShown(i) ==
    /\ inv[i].trace /= <<>>
    /\ inv[i].trace[Len(inv[i].trace)] = "error"
    /\ ToastsOf(i) /= {}
    /\ IsLatest(i) => status = "error" /\ statusMessage \in ErrorMessages

\* C9 (as stated): all four error kinds end with status error, a descriptive
\* inline message and a transient notification.
C9_AllKindsAsStated ==
    \A i \in Invocations :
        (KindA(i) \/ KindB(i) \/ KindC(i) \/ KindD(i)) => ErrorShown(i)

\* C9 (amended): kinds (b), (c) and (d) end with status error, a descriptive
\* inline message and a transient notification; kind (a) only triggers the
\* notification "Please log in to continue" and sets neither the status nor
\* the message.
C9_ErrorKinds ==
    \A i \in Invocations :
        /\ (KindB(i) \/ KindC(i) \/ KindD(i)) => ErrorShown(i)
        /\ KindA(i) => /\ ToastsOf(i) = {[inv |-> i, msg |-> "Please log in to continue"]}
                       /\ inv[i].trace = <<>>

C9_Witness ==
    /\ KindA(1)
    /\ KindB(2)
    /\ inv[2].cause = "pollHttp"
    /\ status = "error"
    /\ statusMessage = "Failed to check prediction status"
    /\ Len(toasts) = 2

\* C10 (as stated): an invocation with a user but without a selected file or
\* without a preview URL makes no request and surfaces an error locally (a
\* notification, or an error status or message).
C10_MissingInputAsStated ==
    \A i \in Invocations :
        (inv[i].pc /= "unused" /\ inv[i].user
         /\ (~inv[i].selectedFile \/ ~inv[i].previewUrl))
        => /\ RequestsOf(i) = {}
           /\ \/ ToastsOf(i) /= {}
              \/ "error" \in Range(inv[i].trace)

\* C10 (amended): such an invocation aborts immediately and silently: it
\* makes no request, triggers no notification and changes neither the status
\* nor the message.
C10_MissingInput ==
    [][\A i \in Invocations :
          (Invoked(i) /\ inv'[i].user /\ (~inv'[i].selectedFile \/ ~inv'[i].previewUrl))
          => /\ inv'[i].pc = "returned"
             /\ UNCHANGED <<status, statusMessage, requests, events, toasts>>]_vars

C10_Witness ==
    /\ inv[1].pc = "returned"
    /\ inv[1].user /\ inv[1].selectedFile /\ ~inv[1].previewUrl
    /\ requests = <<>>
    /\ toasts = <<>>
    /\ status = "idle"
\* A workflow that has not returned: awaiting a response or a body, or asleep
\* before its next status fetch.
InFlight(i) ==
    inv[i].pc \in {"awaitCreate", "awaitErrorJson", "awaitCreateJson",
                   "sleeping", "awaitStatus", "awaitStatusJson"}

\* The poll loop of invocation i is active.
PollActive(i) == inv[i].pc \in {"sleeping", "awaitStatus", "awaitStatusJson"}

\* C11 (as stated): while a submission's poll loop is active the user can
\* trigger the process action again through the component (the button of a
\* component with a selected file is not disabled).
C11_ResubmitAsStated ==
    \A i \in Invocations : PollActive(i) => ~ButtonDisabled(TRUE, status)

\* C11 (amended): concurrent submissions are prevented by the component:
\* while a submission is in flight the UI status is uploading or processing,
\* the Process button is disabled, and no other workflow is in flight, so the
\* status and message are only ever written by one workflow at a time.
C11_SingleWorkflow ==
    /\ \A i \in Invocations :
          InFlight(i) => /\ status \in {"uploading", "processing"}
                         /\ ButtonDisabled(TRUE, status)
                         /\ IsLatest(i)
    /\ Cardinality({i \in Invocations : InFlight(i)}) <= 1

C11_Witness ==
    /\ inv[1].pc = "done"
    /\ inv[2].pc = "sleeping"
    /\ inv[2].polls = 1
    /\ status = "processing"
\* Number of entries of sequence q that satisfy Test.
Count(q, Test(_)) == Cardinality({k \in 1..Len(q) : Test(q[k])})

\* C12: an exception raised after the workflow set the status to uploading
\* is caught exactly once: the workflow is over, it set the status to error
\* once and last, a user-facing message is recorded, and exactly one
\* notification was triggered for the submission; a non-success polling
\* response gives the message "Failed to check prediction status".
C12_CaughtOnce ==
    \A i \in Invocations :
        inv[i].cause /= "none"
        => LET IsError(st) == st = "error"
               Mine(t) == t.inv = i
           IN  /\ inv[i].pc = "done"
               /\ inv[i].trace[1] = "uploading"
               /\ inv[i].trace[Len(inv[i].trace)] = "error"
               /\ Count(inv[i].trace, IsError) = 1
               /\ Count(toasts, Mine) = 1
               /\ IsLatest(i) =>
                    /\ status = "error"
                    /\ statusMessage \in ErrorMessages
                    /\ inv[i].cause = "pollHttp"
                         => statusMessage = "Failed to check prediction status"
                    /\ inv[i].cause \in {"createRejected", "pollRejected"}
                         => statusMessage = FetchRejectMessage
                    /\ inv[i].cause \in {"createJson", "pollJson"}
                         => statusMessage = JsonParseMessage

C12_Witness ==
    \E i \in Invocations :
        /\ inv[i].cause = "pollHttp"
        /\ inv[i].polls = 2
        /\ inv[i].trace = <<"uploading", "processing", "error">>
        /\ status = "error"
        /\ statusMessage = "Failed to check prediction status"

\* C13: a failed submission sends no further request: no step adds a request
\* of a submission that has failed, and every submission sends its creation
\* request exactly once.
C13_FailureTerminal ==
    [][\A i \in Invocations :
          LET IsCreate(r) == r.inv = i /\ r.kind = "create"
              Mine(r) == r.inv = i
          IN  /\ inv[i].cause /= "none"
                  => Count(requests', Mine) = Count(requests, Mine)
              /\ inv'[i].trace /= <<>> => Count(requests', IsCreate) = 1]_vars

C13_Witness ==
    /\ inv[1].cause = "createHttp"
    /\ inv[2].cause = "pollRejected"
    /\ Len(requests) = 3
    /\ requests[1] = [inv |-> 1, kind |-> "create", waited |-> 0]
    /\ requests[2] = [inv |-> 2, kind |-> "create", waited |-> 0]
    /\ requests[3].kind = "status"
\* C14: the poll loop has no ceiling: a submission whose creation response
\* and status responses so far were all successful and non-terminal, however
\* many there were (every count up to MaxPolls), has not returned: it is
\* asleep before its next status fetch or awaiting one, it has issued one
\* status fetch per completed iteration, and the UI status is processing.
C14_NoCeiling ==
    \A i \in Invocations :
        (inv[i].prediction \in NonTerminal /\ inv[i].updated.status \notin Terminal
         /\ inv[i].cause = "none")
        => LET IsPoll(r) == r.inv = i /\ r.kind = "status"
           IN  /\ PollActive(i)
               /\ status = "processing"
               /\ Count(requests, IsPoll) = inv[i].polls
               /\ EventsOf(i) = {} /\ ToastsOf(i) = {}

C14_Witness ==
    \E i \in Invocations :
        /\ inv[i].prediction = "processing"
        /\ inv[i].updated.status = "processing"
        /\ inv[i].polls = MaxPolls
        /\ inv[i].pc = "sleeping"
        /\ status = "processing"
\* C15: each submission dispatches "processComplete" at most once; the step
\* that dispatches it is the step in which the submission observed a
\* "succeeded" status response and set the status to complete; a submission
\* that ended in error has dispatched none, and none is dispatched after.
C15_EventOnce ==
    [][/\ \A i \in Invocations :
            LET Mine(e) == e.inv = i
            IN  /\ Count(events', Mine) <= 1
                /\ Count(events', Mine) > Count(events, Mine)
                    => /\ inv[i].updated.status /= "succeeded"
                       /\ inv'[i].updated.status = "succeeded"
                       /\ status' = "complete"
                       /\ inv'[i].trace = <<"uploading", "processing", "complete">>
                       /\ inv'[i].pc = "done"
                /\ "error" \in Range(inv'[i].trace) => Count(events', Mine) = 0
       /\ events' /= events => Len(events') = Len(events) + 1]_vars

C15_Witness ==
    /\ inv[1].cause = "remoteFailed"
    /\ inv[2].updated.status = "succeeded"
    /\ Len(events) = 1
    /\ events[1].inv = 2
    /\ status = "complete"

\* C16: whenever the UI status is uploading or processing, the statuses for
\* which the Process button is disabled, some submission is still in flight.
C16_NoLockout ==
    status \in {"uploading", "processing"} => \E i \in Invocations : InFlight(i)

\* C17: an emitted outputUrl is a URL contained in the output of the
\* "succeeded" response of its submission, and a "succeeded" response whose
\* output is absent or an empty sequence does not lead to complete with an
\* undefined outputUrl.
C17_UrlFromOutput ==
    \A i \in Invocations :
        LET out == inv[i].updated.output
            contained == IF out.kind = "seq" THEN Range(out.seq)
                         ELSE IF out.kind = "url" THEN {out.url} ELSE {}
        IN  /\ \A e \in EventsOf(i) : e.outputUrl \in contained
            /\ (inv[i].updated.status = "succeeded" /\ contained = {})
               => "complete" \notin Range(inv[i].trace)
====
